---- MODULE Spec2Model ----
(***************************************************************************)
(* Forklift: an HTTP middleware that selects, per request, the backend a   *)
(* request is proxied to (package forklift, forklift.go).                  *)
(*                                                                         *)
(* Strings are sequences of byte values (ASCII codes), because the code    *)
(* hashes, base64-decodes, sorts, prefixes and rewrites them byte-wise.    *)
(* Percentages are integers and every float64 expression of the code is    *)
(* evaluated as the exact rational it denotes (no rounding).               *)
(***************************************************************************)
EXTENDS Integers, Sequences, FiniteSets, TLC

(***************************************************************************)
(* Program constants (forklift.go, const block)                            *)
(***************************************************************************)
maxSessionIDLength == 128
sessionIDByteLength == 32
maxPercentage == 100
sessionCookieMaxAge == 2592000

(***************************************************************************)
(* Bounds of the model                                                     *)
(***************************************************************************)
\* number of distinct outcomes of the random source that succeed
NumSeeds == 2
\* longest rule list of the generated configurations
MaxGenRules == 2
\* longest rule list whose traffic shares are measured
MaxShareRules == 2
\* longest request path given to constructBackendURL on its own
MaxPathLen == 4
\* the hash range is sampled at maxPercentage * GridScale points
GridScale == 1
MaxCleanups == 2
MaxNumLen == 2
MaxIssued == 2

(***************************************************************************)
(* Strings used by the configurations and requests of the model           *)
(***************************************************************************)
EmptyStr == << >>
s_default == <<104, 116, 116, 112, 58, 47, 47, 100, 101, 102, 97, 117, 108, 116>> \* "http://default"
s_echo1 == <<104, 116, 116, 112, 58, 47, 47, 101, 99, 104, 111, 49>>   \* "http://echo1"
s_echo2 == <<104, 116, 116, 112, 58, 47, 47, 101, 99, 104, 111, 50>>   \* "http://echo2"
s_echo3 == <<104, 116, 116, 112, 58, 47, 47, 101, 99, 104, 111, 51>>   \* "http://echo3"
s_root == <<47>>                       \* "/"
s_v2 == <<47, 118, 50>>                \* "/v2"
s_api == <<47, 97, 112, 105>>          \* "/api"
s_v1 == <<47, 118, 49>>                \* "/v1"
s_apiapix == <<47, 97, 112, 105, 47, 97, 112, 105, 47, 120>>  \* "/api/api/x"
s_xapi == <<47, 120, 47, 97, 112, 105>>  \* "/x/api"
s_GET == <<71, 69, 84>>                \* "GET"
s_POST == <<80, 79, 83, 84>>           \* "POST"
s_PUT == <<80, 85, 84>>                \* "PUT"
s_PATCH == <<80, 65, 84, 67, 72>>      \* "PATCH"
s_group1 == <<103, 114, 111, 117, 112, 49>>   \* "group1"
s_group2 == <<103, 114, 111, 117, 112, 50>>   \* "group2"
s_eq == <<101, 113>>                   \* "eq"
s_EQ == <<69, 81>>                     \* "EQ"
s_equals == <<101, 113, 117, 97, 108, 115>>   \* "equals"
s_contains == <<99, 111, 110, 116, 97, 105, 110, 115>>  \* "contains"
s_prefix == <<112, 114, 101, 102, 105, 120>>  \* "prefix"
s_suffix == <<115, 117, 102, 102, 105, 120>>  \* "suffix"
s_gt == <<103, 116>>                   \* "gt"
s_form == <<102, 111, 114, 109>>       \* "form"
s_query == <<113, 117, 101, 114, 121>> \* "query"
s_header == <<104, 101, 97, 100, 101, 114>>   \* "header"
s_cookie == <<99, 111, 111, 107, 105, 101>>   \* "cookie"
s_MID == <<77, 73, 68>>                \* "MID"
s_mid == <<109, 105, 100>>             \* "mid"
s_a == <<97>>                          \* "a"
s_d == <<100>>                         \* "d"
s_two == <<116, 119, 111>>             \* "two"
s_badhost == <<104, 116, 116, 112, 58, 47, 47, 1>>    \* "http://\x01"
s_v3 == <<47, 118, 51>>    \* "/v3"
s_unknown == <<47, 117, 110, 107, 110, 111, 119, 110>>    \* "/unknown"
s_querytest == <<47, 113, 117, 101, 114, 121, 45, 116, 101, 115, 116>>    \* "/query-test"
s_GT == <<71, 84>>    \* "GT"
s_premiumcontent ==
    <<47, 112, 114, 101, 109, 105, 117, 109, 45, 99, 111, 110, 116, 101, 110, 116>>    \* "/premium-content"
s_premium ==
    <<104, 116, 116, 112, 58, 47, 47, 112, 114, 101, 109, 105, 117, 109, 45, 115, 101, 114, 118, 105, 99, 101>>    \* "http://premium-service"
s_Authorization ==
    <<65, 117, 116, 104, 111, 114, 105, 122, 97, 116, 105, 111, 110>>    \* "Authorization"
s_regex ==
    <<114, 101, 103, 101, 120>>    \* "regex"
s_bearerpattern ==
    <<94, 66, 101, 97, 114, 101, 114, 32, 112, 114, 101, 109, 105, 117, 109, 45, 46, 42, 36>>    \* "^Bearer premium-.*$"
s_bearerprefix ==
    <<66, 101, 97, 114, 101, 114, 32, 112, 114, 101, 109, 105, 117, 109, 45>>    \* "Bearer premium-"
s_bearerabc ==
    <<66, 101, 97, 114, 101, 114, 32, 112, 114, 101, 109, 105, 117, 109, 45, 97, 98, 99>>    \* "Bearer premium-abc"
s_bearerfree ==
    <<66, 101, 97, 114, 101, 114, 32, 102, 114, 101, 101, 45, 97, 98, 99>>    \* "Bearer free-abc"
s_version ==
    <<118, 101, 114, 115, 105, 111, 110>>    \* "version"
s_v2value ==
    <<118, 50>>    \* "v2"
s_XTier == <<88, 45, 84, 105, 101, 114>>    \* "X-Tier"
s_xtier == <<120, 45, 116, 105, 101, 114>>    \* "x-tier"
s_tier == <<116, 105, 101, 114>>    \* "tier"
s_gold == <<103, 111, 108, 100>>    \* "gold"
s_GoldSpaced == <<32, 71, 111, 108, 100, 32>>    \* " Gold "
s_GOLD == <<71, 79, 76, 68>>    \* "GOLD"
s_silver == <<115, 105, 108, 118, 101, 114>>    \* "silver"
s_AAAA == <<65, 65, 65, 65>>           \* "AAAA"
s_AApad == <<65, 65, 61, 61>>          \* "AA=="
s_AAA == <<65, 65, 65>>                \* "AAA"
s_AplusAA == <<65, 43, 65, 65>>        \* "A+AA"
s_AApadA == <<65, 65, 61, 65>>         \* "AA=A"

(***************************************************************************)
(* package strings                                                         *)
(***************************************************************************)
HasPrefix(s, p) == Len(p) <= Len(s) /\ SubSeq(s, 1, Len(p)) = p

HasSuffix(s, p) == Len(p) <= Len(s) /\ SubSeq(s, Len(s) - Len(p) + 1, Len(s)) = p

\* strings.Index: the 1-based position of the first occurrence of sub in s, 0 if none
RECURSIVE IndexFrom(_, _, _)
IndexFrom(s, sub, i) ==
    IF i + Len(sub) - 1 > Len(s) THEN 0
    ELSE IF SubSeq(s, i, i + Len(sub) - 1) = sub THEN i
    ELSE IndexFrom(s, sub, i + 1)

Index(s, sub) == IndexFrom(s, sub, 1)

Contains(s, sub) == Index(s, sub) > 0

\* strings.Replace(s, old, new, 1): the first occurrence of old replaced by new
ReplaceFirst(s, old, new) ==
    LET i == Index(s, old)
    IN  IF i = 0 THEN s
        ELSE SubSeq(s, 1, i - 1) \o new \o SubSeq(s, i + Len(old), Len(s))

ToLowerByte(c) == IF c >= 65 /\ c <= 90 THEN c + 32 ELSE c

ToLower(s) == [i \in 1..Len(s) |-> ToLowerByte(s[i])]

\* the ASCII white space strings.TrimSpace removes: \t \n \v \f \r and space
IsSpace(c) == c \in {9, 10, 11, 12, 13, 32}

RECURSIVE TrimLeft(_)
TrimLeft(s) == IF s # << >> /\ IsSpace(Head(s)) THEN TrimLeft(Tail(s)) ELSE s

RECURSIVE TrimRight(_)
TrimRight(s) ==
    IF s # << >> /\ IsSpace(s[Len(s)]) THEN TrimRight(SubSeq(s, 1, Len(s) - 1)) ELSE s

TrimSpace(s) == TrimRight(TrimLeft(s))

\* the order of Go's string comparison (sort.Strings): byte-wise lexicographic
RECURSIVE StrLess(_, _)
StrLess(a, b) ==
    IF b = << >> THEN FALSE
    ELSE IF a = << >> THEN TRUE
    ELSE IF Head(a) < Head(b) THEN TRUE
    ELSE IF Head(a) > Head(b) THEN FALSE
    ELSE StrLess(Tail(a), Tail(b))

(***************************************************************************)
(* Unsigned integers wider than TLC's: little-endian sequences of 16-bit   *)
(* limbs.                                                                  *)
(***************************************************************************)
LimbBase == 256 * 256

RECURSIVE BigMulCarry(_, _, _)
BigMulCarry(a, k, c) ==
    IF a = << >>
    THEN IF c = 0 THEN << >> ELSE <<c % LimbBase>> \o BigMulCarry(<< >>, k, c \div LimbBase)
    ELSE LET t == Head(a) * k + c
         IN  <<t % LimbBase>> \o BigMulCarry(Tail(a), k, t \div LimbBase)

\* a * k for 0 <= k < 2^15
BigMul(a, k) == BigMulCarry(a, k, 0)

BigLimb(a, i) == IF i <= Len(a) THEN a[i] ELSE 0

RECURSIVE BigLeqFrom(_, _, _)
BigLeqFrom(a, b, i) ==
    IF i = 0 THEN TRUE
    ELSE IF BigLimb(a, i) < BigLimb(b, i) THEN TRUE
    ELSE IF BigLimb(a, i) > BigLimb(b, i) THEN FALSE
    ELSE BigLeqFrom(a, b, i - 1)

BigLeq(a, b) == BigLeqFrom(a, b, IF Len(a) > Len(b) THEN Len(a) ELSE Len(b))

\* ^uint64(0) = 2^64 - 1
MaxUint64 == <<65535, 65535, 65535, 65535>>

(***************************************************************************)
(* hash/fnv: New64a, Write, Sum64                                          *)
(***************************************************************************)
RECURSIVE XorBits(_, _, _)
XorBits(a, b, n) ==
    IF n = 0 THEN 0
    ELSE (((a % 2) + (b % 2)) % 2) + 2 * XorBits(a \div 2, b \div 2, n - 1)

\* offset64 = 0xcbf29ce484222325
fnvOffset64 == <<8997, 33826, 40164, 52210>>

\* one byte: hash ^= byte; hash *= prime64 (0x100000001b3 = 2^40 + 435), mod 2^64
fnvWriteByte(h, byte) ==
    LET x0 == (h[1] \div 256) * 256 + XorBits(h[1] % 256, byte, 8)
        t0 == x0 * 435
        t1 == h[2] * 435 + t0 \div LimbBase
        t2 == h[3] * 435 + (x0 % 256) * 256 + t1 \div LimbBase
        t3 == h[4] * 435 + (x0 \div 256) + (h[2] % 256) * 256 + t2 \div LimbBase
    IN  <<t0 % LimbBase, t1 % LimbBase, t2 % LimbBase, t3 % LimbBase>>

\* Write: the bytes data[lo..hi] in order (the range is split in halves, and h
\* is looked at first, to keep the evaluation shallow)
RECURSIVE fnvWriteRange(_, _, _, _)
fnvWriteRange(h, data, lo, hi) ==
    IF Len(h) = 0 \/ lo > hi THEN h
    ELSE IF lo = hi THEN fnvWriteByte(h, data[lo])
    ELSE fnvWriteRange(fnvWriteRange(h, data, lo, (lo + hi) \div 2),
                       data, (lo + hi) \div 2 + 1, hi)

fnvWrite(h, data) == fnvWriteRange(h, data, 1, Len(data))

(***************************************************************************)
(* encoding/base64: URLEncoding (alphabet A-Z a-z 0-9 - _, padding =)      *)
(***************************************************************************)
B64Char(i) ==
    IF i < 26 THEN 65 + i
    ELSE IF i < 52 THEN 97 + (i - 26)
    ELSE IF i < 62 THEN 48 + (i - 52)
    ELSE IF i = 62 THEN 45 ELSE 95

IsB64Char(c) ==
    \/ c >= 65 /\ c <= 90
    \/ c >= 97 /\ c <= 122
    \/ c >= 48 /\ c <= 57
    \/ c = 45
    \/ c = 95

\* base64.URLEncoding.EncodeToString
RECURSIVE EncodeToString(_)
EncodeToString(b) ==
    IF Len(b) = 0 THEN << >>
    ELSE IF Len(b) = 1
    THEN <<B64Char(b[1] \div 4), B64Char((b[1] % 4) * 16), 61, 61>>
    ELSE IF Len(b) = 2
    THEN <<B64Char(b[1] \div 4), B64Char((b[1] % 4) * 16 + b[2] \div 16),
           B64Char((b[2] % 16) * 4), 61>>
    ELSE <<B64Char(b[1] \div 4), B64Char((b[1] % 4) * 16 + b[2] \div 16),
           B64Char((b[2] % 16) * 4 + b[3] \div 64), B64Char(b[3] % 64)>>
         \o EncodeToString(SubSeq(b, 4, Len(b)))

\* the decoder skips \r and \n wherever they stand
IsNotNewline(c) == c \notin {10, 13}

DropNewlines(s) == SelectSeq(s, IsNotNewline)

\* base64.URLEncoding.DecodeString(s) returns no error: quanta of four
\* alphabet characters; the last quantum may be two characters and "==" or
\* three characters and "="; nothing may follow the padding
DecodeQuanta(s) ==
    /\ Len(s) % 4 = 0
    /\ \A q \in 1..(Len(s) \div 4) :
           LET c1 == s[4 * q - 3]
               c2 == s[4 * q - 2]
               c3 == s[4 * q - 1]
               c4 == s[4 * q]
           IN  \/ IsB64Char(c1) /\ IsB64Char(c2) /\ IsB64Char(c3) /\ IsB64Char(c4)
               \/ /\ 4 * q = Len(s)
                  /\ IsB64Char(c1) /\ IsB64Char(c2)
                  /\ c4 = 61
                  /\ (c3 = 61 \/ IsB64Char(c3))

DecodeStringOK(s) == DecodeQuanta(DropNewlines(s))

(***************************************************************************)
(* config.Config, config.RoutingRule, config.RuleCondition; http.Request   *)
(***************************************************************************)
Rule(path, prefix, method, conds, backend, pct, prio, rewrite, token) ==
    [Path |-> path, PathPrefix |-> prefix, Method |-> method, Conditions |-> conds,
     Backend |-> backend, Percentage |-> pct, Priority |-> prio,
     PathPrefixRewrite |-> rewrite, AffinityToken |-> token]

Cond(type, parameter, queryParam, operator, value) ==
    [Type |-> type, Parameter |-> parameter, QueryParam |-> queryParam,
     Operator |-> operator, Value |-> value]

\* a nil *RoutingRule
NoRule == [nil |-> TRUE]

\* Header, Query, Cookies and PostForm are sequences of <<name, value>> pairs in
\* the order the request carries them; FormOK is FALSE when the body does not
\* parse as a URL-encoded form
Request(path, method, header, query, cookies, formOK, form) ==
    [Path |-> path, Method |-> method, Header |-> header, Query |-> query,
     Cookies |-> cookies, FormOK |-> formOK, PostForm |-> form, TLS |-> FALSE]

\* "name=value" joined by "&": the URL encoding of pairs whose bytes need no
\* escaping, as the query string or the form body carries them
RECURSIVE EncodePairs(_)
EncodePairs(pairs) ==
    IF pairs = << >> THEN EmptyStr
    ELSE Head(pairs)[1] \o <<61>> \o Head(pairs)[2]
         \o (IF Len(pairs) > 1 THEN <<38>> \o EncodePairs(Tail(pairs)) ELSE EmptyStr)

\* req.Body as it arrives: the form of a POST, PUT or PATCH request
RequestBody(req) ==
    IF req.Method \in {s_POST, s_PUT, s_PATCH} THEN EncodePairs(req.PostForm) ELSE EmptyStr

\* req.URL.RawQuery
RawQuery(req) == EncodePairs(req.Query)

\* the values of every pair named name, in order
RECURSIVE Values(_, _)
Values(pairs, name) ==
    IF pairs = << >> THEN << >>
    ELSE IF Head(pairs)[1] = name THEN <<Head(pairs)[2]>> \o Values(Tail(pairs), name)
    ELSE Values(Tail(pairs), name)

\* url.Values.Get, Request.PostFormValue: the first value, "" when there is none
Get(pairs, name) ==
    LET v == Values(pairs, name) IN IF v = << >> THEN EmptyStr ELSE v[1]

(***************************************************************************)
(* compareValues and parseFloats                                           *)
(***************************************************************************)
IsDigit(c) == c >= 48 /\ c <= 57

RECURSIVE AllDigits(_)
AllDigits(s) == s = << >> \/ (IsDigit(Head(s)) /\ AllDigits(Tail(s)))

RECURSIVE DigitsValue(_, _)
DigitsValue(s, acc) ==
    IF s = << >> THEN acc ELSE DigitsValue(Tail(s), acc * 10 + (Head(s) - 48))

\* strconv.ParseFloat(s, 64) on an optionally signed run of decimal digits; every
\* other string of the model is one ParseFloat rejects, and the value returned
\* with the error, which parseFloats drops, is 0
ParseFloat(s) ==
    LET neg == s # << >> /\ Head(s) = 45
        body == IF s # << >> /\ Head(s) \in {43, 45} THEN Tail(s) ELSE s
    IN  IF body # << >> /\ AllDigits(body)
        THEN [ok |-> TRUE, f |-> IF neg THEN 0 - DigitsValue(body, 0) ELSE DigitsValue(body, 0)]
        ELSE [ok |-> FALSE, f |-> 0]

parseFloats(s1, s2) == <<ParseFloat(s1).f, ParseFloat(s2).f>>

compareValues(actual, operator, expected) ==
    LET op == ToLower(operator)
    IN  IF op = s_eq \/ op = s_equals THEN actual = expected
        ELSE IF op = s_contains THEN Contains(actual, expected)
        ELSE IF op = s_prefix THEN HasPrefix(actual, expected)
        ELSE IF op = s_suffix THEN HasSuffix(actual, expected)
        ELSE IF op = s_gt THEN parseFloats(actual, expected)[1] > parseFloats(actual, expected)[2]
        ELSE FALSE

(***************************************************************************)
(* RuleEngine: checkCondition, checkConditions, ruleMatches                *)
(***************************************************************************)
\* Request.ParseForm reads the body of a POST, PUT or PATCH request only, and
\* PostForm stays empty for every other method
checkForm(req, condition) ==
    LET hasBody == req.Method \in {s_POST, s_PUT, s_PATCH}
    IN  IF hasBody /\ ~req.FormOK THEN FALSE
        ELSE compareValues(IF hasBody THEN Get(req.PostForm, condition.Parameter)
                           ELSE EmptyStr,
                           condition.Operator, condition.Value)

\* checkHeader that compares the header values and the expected value as given
checkHeaderExact(req, condition) ==
    LET headerValues ==
            Values([i \in 1..Len(req.Header) |->
                       <<ToLower(req.Header[i][1]), req.Header[i][2]>>],
                   ToLower(condition.Parameter))
    IN  \E i \in 1..Len(headerValues) :
            compareValues(headerValues[i], condition.Operator, condition.Value)

\* header names are held in canonical form by the request and canonicalised by
\* Header.Values, so they compare without regard to case
checkHeader(req, condition) ==
    LET headerValues ==
            Values([i \in 1..Len(req.Header) |->
                       <<ToLower(req.Header[i][1]), req.Header[i][2]>>],
                   ToLower(condition.Parameter))
    IN  \E i \in 1..Len(headerValues) :
            compareValues(TrimSpace(ToLower(headerValues[i])), condition.Operator,
                          TrimSpace(ToLower(condition.Value)))

\* checkQuery that looks the value up under condition.Parameter
checkQueryByParameter(req, condition) ==
    compareValues(Get(req.Query, condition.Parameter), condition.Operator, condition.Value)

checkQuery(req, condition) ==
    compareValues(Get(req.Query, condition.QueryParam), condition.Operator, condition.Value)

checkCookie(req, condition) ==
    LET v == Values(req.Cookies, condition.Parameter)
    IN  IF v = << >> THEN FALSE
        ELSE compareValues(v[1], condition.Operator, condition.Value)

checkCondition(req, condition) ==
    LET t == ToLower(condition.Type)
    IN  IF t = s_header THEN checkHeader(req, condition)
        ELSE IF t = s_query THEN checkQuery(req, condition)
        ELSE IF t = s_cookie THEN checkCookie(req, condition)
        ELSE IF t = s_form THEN checkForm(req, condition)
        ELSE FALSE

RECURSIVE checkConditions(_, _)
checkConditions(req, conditions) ==
    IF conditions = << >> THEN TRUE
    ELSE IF ~checkCondition(req, Head(conditions)) THEN FALSE
    ELSE checkConditions(req, Tail(conditions))

\* matchPath that tests PathPrefix only when the rule has no Path
matchPathPrefixUnlessPath(req, rule) ==
    IF rule.Path # EmptyStr THEN rule.Path = req.Path
    ELSE IF rule.PathPrefix # EmptyStr /\ ~HasPrefix(req.Path, rule.PathPrefix) THEN FALSE
    ELSE TRUE

matchPath(req, rule) ==
    IF rule.Path # EmptyStr /\ rule.Path # req.Path THEN FALSE
    ELSE IF rule.PathPrefix # EmptyStr /\ ~HasPrefix(req.Path, rule.PathPrefix) THEN FALSE
    ELSE TRUE

matchMethod(req, rule) == ~(rule.Method # EmptyStr /\ rule.Method # req.Method)

matchConditions(req, rule) ==
    IF Len(rule.Conditions) = 0 THEN TRUE ELSE checkConditions(req, rule.Conditions)

ruleMatches(req, rule) ==
    IF ~matchPath(req, rule) THEN FALSE
    ELSE IF ~matchMethod(req, rule) THEN FALSE
    ELSE matchConditions(req, rule)

\* the evaluation of these conditions, which stops at the first one that fails,
\* calls checkForm
RECURSIVE conditionsCallCheckForm(_, _)
conditionsCallCheckForm(req, conditions) ==
    IF conditions = << >> THEN FALSE
    ELSE IF ToLower(Head(conditions).Type) = s_form THEN TRUE
    ELSE IF ~checkCondition(req, Head(conditions)) THEN FALSE
    ELSE conditionsCallCheckForm(req, Tail(conditions))

\* a ruleMatches that evaluates the conditions of a rule whatever its path
ruleCallsParseFormAnyPath(req, rule) ==
    /\ matchMethod(req, rule)
    /\ conditionsCallCheckForm(req, rule.Conditions)

\* ruleMatches(req, rule) calls checkForm, and with it req.ParseForm
ruleCallsParseForm(req, rule) ==
    /\ matchPath(req, rule)
    /\ matchMethod(req, rule)
    /\ conditionsCallCheckForm(req, rule.Conditions)

\* what is left to read of req.Body after getMatchingRules: ParseForm reads the
\* body of a POST, PUT or PATCH request to its end, once
bodyAfterMatching(rules, req, body) ==
    IF /\ req.Method \in {s_POST, s_PUT, s_PATCH}
       /\ \E i \in 1..Len(rules) : ruleCallsParseForm(req, rules[i])
    THEN EmptyStr
    ELSE body

(***************************************************************************)
(* Forklift: getMatchingRules, selectBackend and its helpers               *)
(***************************************************************************)
\* getMatchingRules with a ruleMatches that skips matchMethod
RECURSIVE getMatchingRulesAnyMethod(_, _)
getMatchingRulesAnyMethod(rules, req) ==
    IF rules = << >> THEN << >>
    ELSE IF matchPath(req, Head(rules)) /\ matchConditions(req, Head(rules))
    THEN <<Head(rules)>> \o getMatchingRulesAnyMethod(Tail(rules), req)
    ELSE getMatchingRulesAnyMethod(Tail(rules), req)

RECURSIVE getMatchingRules(_, _)
getMatchingRules(rules, req) ==
    IF rules = << >> THEN << >>
    ELSE IF ruleMatches(req, Head(rules))
    THEN <<Head(rules)>> \o getMatchingRules(Tail(rules), req)
    ELSE getMatchingRules(Tail(rules), req)

\* sort.Slice(rules, func(i, j) { return rules[i].Priority > rules[j].Priority }):
\* for a slice of at most maxInsertion elements Go's sort.Slice is an insertion
\* sort, which moves an element left while less(it, its left neighbour)
RECURSIVE InsertByPriority(_, _)
InsertByPriority(sorted, rule) ==
    IF sorted # << >> /\ rule.Priority > sorted[Len(sorted)].Priority
    THEN Append(InsertByPriority(SubSeq(sorted, 1, Len(sorted) - 1), rule),
                sorted[Len(sorted)])
    ELSE Append(sorted, rule)

RECURSIVE SortFrom(_, _)
SortFrom(sorted, rest) ==
    IF rest = << >> THEN sorted
    ELSE SortFrom(InsertByPriority(sorted, Head(rest)), Tail(rest))

maxInsertion == 12

less(data, i, j) == data[i].Priority > data[j].Priority

Swap(data, i, j) == [data EXCEPT ![i] = data[j], ![j] = data[i]]

order2(data, a, b) ==
    IF less(data, b, a) THEN [a |-> b, b |-> a, swaps |-> 1]
    ELSE [a |-> a, b |-> b, swaps |-> 0]

median(data, a, b, c) ==
    LET s1 == order2(data, a, b)
        s2 == order2(data, s1.b, c)
        s3 == order2(data, s1.a, s2.a)
    IN  [pivot |-> s3.b, swaps |-> s1.swaps + s2.swaps + s3.swaps]

\* choosePivot of a slice of 8 to 49 elements: the median of the elements at
\* its three quarters, and how many swaps ordering them took
choosePivot(data) ==
    LET q == Len(data) \div 4
    IN  median(data, 1 + q, 1 + 2 * q, 1 + 3 * q)

\* partialInsertionSort of a slice shorter than 50: true only if nothing is
\* out of order
partialInsertionSort(data) == \A i \in 2..Len(data) : ~less(data, i, i - 1)

RECURSIVE scanUp(_, _, _, _)
scanUp(data, a, i, j) ==
    IF i <= j /\ less(data, i, a) THEN scanUp(data, a, i + 1, j) ELSE i

RECURSIVE scanDown(_, _, _, _)
scanDown(data, a, i, j) ==
    IF i <= j /\ ~less(data, j, a) THEN scanDown(data, a, i, j - 1) ELSE j

RECURSIVE partitionFrom(_, _, _, _)
partitionFrom(data, a, i, j) ==
    LET i2 == scanUp(data, a, i, j)
        j2 == scanDown(data, a, i2, j)
    IN  IF i2 > j2 THEN [data |-> Swap(data, j2, a), mid |-> j2]
        ELSE partitionFrom(Swap(data, i2, j2), a, i2 + 1, j2 - 1)

\* partition: the pivot goes to the front, elements are exchanged across it, and
\* it is put back between the two parts
partition(data, pivot) == partitionFrom(Swap(data, 1, pivot), 1, 2, Len(data))

\* pdqsort_func on a whole slice of maxInsertion + 1 elements: one partition,
\* whose two sides have at most maxInsertion elements and are insertion-sorted
pdqsort(data) ==
    IF choosePivot(data).swaps = 0 /\ partialInsertionSort(data) THEN data
    ELSE LET p == partition(data, choosePivot(data).pivot)
         IN  SortFrom(<< >>, SubSeq(p.data, 1, p.mid - 1))
             \o <<p.data[p.mid]>>
             \o SortFrom(<< >>, SubSeq(p.data, p.mid + 1, Len(data)))

sortByPriority(rules) ==
    IF Len(rules) <= maxInsertion THEN SortFrom(<< >>, rules) ELSE pdqsort(rules)

BackendsOf(rules) == {rules[i].Backend : i \in 1..Len(rules)}

\* backendRules[backend]: the rules of that backend, in the order of rules
RECURSIVE backendRules(_, _)
backendRules(rules, backend) ==
    IF rules = << >> THEN << >>
    ELSE IF Head(rules).Backend = backend
    THEN <<Head(rules)>> \o backendRules(Tail(rules), backend)
    ELSE backendRules(Tail(rules), backend)

\* totalPercentage in which a rule without a percentage adds nothing
RECURSIVE totalPercentageSkipZero(_, _)
totalPercentageSkipZero(rules, acc) ==
    IF rules = << >> THEN acc
    ELSE totalPercentageSkipZero(Tail(rules),
                                 IF Head(rules).Percentage > 0
                                 THEN acc + Head(rules).Percentage ELSE acc)

\* the loop over one backend's rules: sum the positive percentages, and stop
\* with 100 at the first rule that has none
RECURSIVE totalPercentage(_, _)
totalPercentage(rules, acc) ==
    IF rules = << >> THEN acc
    ELSE IF Head(rules).Percentage > 0
    THEN totalPercentage(Tail(rules), acc + Head(rules).Percentage)
    ELSE maxPercentage

backendPercentages(matchingRules) ==
    [b \in BackendsOf(matchingRules) |-> totalPercentage(backendRules(matchingRules, b), 0)]

\* for k := range m: Go visits the keys of a map in an order that may differ from
\* one loop to the next; Orders(S) is every order the keys S may be visited in
Orders(S) ==
    {o \in [1..Cardinality(S) -> S] : \A i, j \in 1..Cardinality(S) : o[i] = o[j] => i = j}

\* sort.Strings
RECURSIVE InsertString(_, _)
InsertString(sorted, s) ==
    IF sorted # << >> /\ StrLess(s, sorted[Len(sorted)])
    THEN Append(InsertString(SubSeq(sorted, 1, Len(sorted) - 1), s), sorted[Len(sorted)])
    ELSE Append(sorted, s)

RECURSIVE SortStrings(_)
SortStrings(strs) ==
    IF strs = << >> THEN << >>
    ELSE InsertString(SortStrings(SubSeq(strs, 1, Len(strs) - 1)), strs[Len(strs)])

\* sortBackends without its sort.Strings: the keys as the loop visited them
sortBackendsUnsorted(percentages, keyOrder) ==
    SelectSeq(keyOrder, LAMBDA b : b \in DOMAIN percentages)

\* sortBackends: the keys of the map as the loop visits them (keyOrder), then
\* sorted as strings
sortBackends(percentages, keyOrder) ==
    SortStrings(SelectSeq(keyOrder, LAMBDA b : b \in DOMAIN percentages))

\* totalPercentage of selectBackendFromRanges: the values of the map added up in
\* the order the loop visits them
RECURSIVE SumOver(_, _)
SumOver(percentages, sumOrder) ==
    IF sumOrder = << >> THEN 0
    ELSE SumOver(percentages, SubSeq(sumOrder, 1, Len(sumOrder) - 1))
         + percentages[sumOrder[Len(sumOrder)]]

RECURSIVE CumulativeUpTo(_, _, _)
CumulativeUpTo(backends, percentages, i) ==
    IF i = 0 THEN 0
    ELSE percentages[backends[i]] + CumulativeUpTo(backends, percentages, i - 1)

\* createCumulativeRanges that stores the running total before it adds the
\* backend's own percentage
createCumulativeRangesExclusive(backends, percentages) ==
    LET total == CumulativeUpTo(backends, percentages, Len(backends))
    IN  [b \in {backends[i] : i \in 1..Len(backends)} |->
            LET i == CHOOSE j \in 1..Len(backends) : backends[j] = b
            IN  [c |-> CumulativeUpTo(backends, percentages, i - 1),
                 fn |-> IF total > maxPercentage THEN maxPercentage ELSE 1,
                 fd |-> IF total > maxPercentage THEN total ELSE 1]]

\* ranges[backend] = c * fn / fd: the cumulative total c of the backends up to
\* and including this one, times the factor fn / fd = maxPercentage / total
\* when the total of all backends exceeds maxPercentage, and 1 otherwise
createCumulativeRanges(backends, percentages) ==
    LET total == CumulativeUpTo(backends, percentages, Len(backends))
    IN  [b \in {backends[i] : i \in 1..Len(backends)} |->
            LET i == CHOOSE j \in 1..Len(backends) : backends[j] = b
            IN  [c |-> CumulativeUpTo(backends, percentages, i),
                 fn |-> IF total > maxPercentage THEN maxPercentage ELSE 1,
                 fd |-> IF total > maxPercentage THEN total ELSE 1]]

\* hashValue is the rational maxPercentage * n / d, n and d wide integers.
\* scaledHashValue = hashValue * (totalPercentage / maxPercentage) = n * total / d,
\* and scaledHashValue <= ranges[b] is n * total * fd <= d * c * fn
InRange(hashValue, total, range) ==
    BigLeq(BigMul(BigMul(hashValue.n, total), range.fd),
           BigMul(BigMul(hashValue.d, range.c), range.fn))

RECURSIVE FirstInRange(_, _, _, _, _)
FirstInRange(backends, ranges, hashValue, total, i) ==
    IF i > Len(backends) THEN EmptyStr
    ELSE IF InRange(hashValue, total, ranges[backends[i]]) THEN backends[i]
    ELSE FirstInRange(backends, ranges, hashValue, total, i + 1)

selectBackendFromRanges(backends, percentages, hashValue, sumOrder) ==
    LET cumulativeRanges == createCumulativeRanges(backends, percentages)
        total == SumOver(percentages, sumOrder)
        selectedBackend == FirstInRange(backends, cumulativeRanges, hashValue, total, 1)
    IN  IF selectedBackend = EmptyStr THEN backends[Len(backends)] ELSE selectedBackend

\* a rule key that also holds the rule's PathPrefix
RuleKeyWithPrefix(rule) ==
    IF rule.AffinityToken # EmptyStr THEN rule.AffinityToken
    ELSE rule.Path \o rule.PathPrefix \o rule.Method \o rule.Backend

\* what a rule contributes to the stickiness hash
RuleKey(rule) ==
    IF rule.AffinityToken # EmptyStr THEN rule.AffinityToken
    ELSE rule.Path \o rule.Method \o rule.Backend

RECURSIVE writeRules(_, _)
writeRules(h, rules) ==
    IF rules = << >> THEN h
    ELSE writeRules(fnvWrite(h, RuleKey(Head(rules))), Tail(rules))

\* float64(h.Sum64()) / float64(^uint64(0)) * maxPercentage
calculateHash(sessionID, matchingRules) ==
    [n |-> writeRules(fnvWrite(fnvOffset64, sessionID), matchingRules), d |-> MaxUint64]

\* selectBackend from "Group rules by backend" on: matchingRules are the
\* matching rules after the sort, hashValue the value of the stickiness hash,
\* iter.keys and iter.sum the orders in which the two loops over the map
\* backendPercentages visit its keys
selectSorted(defaultBackend, matchingRules, hashValue, iter) ==
    LET percentages == backendPercentages(matchingRules)
        selectedBackend ==
            selectBackendFromRanges(sortBackends(percentages, iter.keys), percentages,
                                    hashValue, iter.sum)
    IN  IF selectedBackend # EmptyStr
           /\ Len(backendRules(matchingRules, selectedBackend)) > 0
        THEN [Backend |-> selectedBackend,
              Rule |-> backendRules(matchingRules, selectedBackend)[1]]
        ELSE [Backend |-> defaultBackend, Rule |-> NoRule]

selectBackend(config, req, sessionID, iter) ==
    LET matching == getMatchingRules(config.Rules, req)
    IN  IF Len(matching) = 0 THEN [Backend |-> config.DefaultBackend, Rule |-> NoRule]
        ELSE LET matchingRules == sortByPriority(matching)
             IN  selectSorted(config.DefaultBackend, matchingRules,
                              calculateHash(sessionID, matchingRules), iter)

\* the orders in which the loops of one selection may visit the map built from
\* these rules
MapIterations(rules) ==
    [keys : Orders(BackendsOf(rules)), sum : Orders(BackendsOf(rules))]

(***************************************************************************)
(* Session identity: generateSessionID, isValidSessionID                   *)
(***************************************************************************)
\* isValidSessionID decoding with base64.RawURLEncoding, which takes no padding
isValidSessionIDRaw(sessionID) ==
    IF Len(sessionID) = 0 \/ Len(sessionID) > maxSessionIDLength THEN FALSE
    ELSE /\ \A i \in 1..Len(sessionID) : IsB64Char(sessionID[i])
         /\ Len(sessionID) % 4 # 1

\* isValidSessionID without the test against maxSessionIDLength
isValidSessionIDAnyLength(sessionID) ==
    IF Len(sessionID) = 0 THEN FALSE
    ELSE DecodeStringOK(sessionID)

isValidSessionID(sessionID) ==
    IF Len(sessionID) = 0 \/ Len(sessionID) > maxSessionIDLength THEN FALSE
    ELSE DecodeStringOK(sessionID)

\* generateSessionID on the bytes rand.Read filled in
generateSessionID(randomBytes) == EncodeToString(randomBytes)

(***************************************************************************)
(* constructBackendURL                                                     *)
(***************************************************************************)
\* strings.Replace(s, old, new, -1) for a non-empty old
RECURSIVE ReplaceEvery(_, _, _)
ReplaceEvery(s, old, new) ==
    IF Index(s, old) = 0 THEN s
    ELSE SubSeq(s, 1, Index(s, old) - 1) \o new
         \o ReplaceEvery(SubSeq(s, Index(s, old) + Len(old), Len(s)), old, new)

\* the rewrite with every occurrence of the prefix replaced
rewritePathEvery(path, selectedRule) ==
    IF selectedRule # NoRule /\ selectedRule.PathPrefixRewrite # EmptyStr
    THEN IF selectedRule.PathPrefix # EmptyStr /\ HasPrefix(path, selectedRule.PathPrefix)
         THEN ReplaceEvery(path, selectedRule.PathPrefix, selectedRule.PathPrefixRewrite)
         ELSE path
    ELSE path

rewritePath(path, selectedRule) ==
    IF selectedRule # NoRule /\ selectedRule.PathPrefixRewrite # EmptyStr
    THEN IF selectedRule.PathPrefix # EmptyStr /\ HasPrefix(path, selectedRule.PathPrefix)
         THEN ReplaceFirst(path, selectedRule.PathPrefix, selectedRule.PathPrefixRewrite)
         ELSE path
    ELSE path

constructBackendURL(req, backend, selectedRule) ==
    backend \o rewritePath(req.Path, selectedRule)

(***************************************************************************)
(* New, NewForklift                                                        *)
(***************************************************************************)
Config(defaultBackend, rules, debug) ==
    [DefaultBackend |-> defaultBackend, Rules |-> rules, Debug |-> debug]

\* NewForklift that tests the percentages against the upper limit only
NewForkliftUpperOnly(config) ==
    IF config.DefaultBackend = EmptyStr THEN [ok |-> FALSE, config |-> config]
    ELSE IF \E i \in 1..Len(config.Rules) : config.Rules[i].Percentage > 100
    THEN [ok |-> FALSE, config |-> config]
    ELSE [ok |-> TRUE,
          config |-> [config EXCEPT !.Debug = FALSE, !.Rules = sortByPriority(config.Rules)]]

\* NewForklift that turns debugging off and sorts the rules before it validates
NewForkliftSortFirst(config) ==
    LET kept == [config EXCEPT !.Debug = FALSE, !.Rules = sortByPriority(config.Rules)]
    IN  IF config.DefaultBackend = EmptyStr THEN [ok |-> FALSE, config |-> kept]
        ELSE IF \E i \in 1..Len(config.Rules) :
                    config.Rules[i].Percentage < 0 \/ config.Rules[i].Percentage > 100
        THEN [ok |-> FALSE, config |-> kept]
        ELSE [ok |-> TRUE, config |-> kept]

\* NewForklift: the error, or the configuration as the middleware holds it
NewForklift(config) ==
    IF config.DefaultBackend = EmptyStr THEN [ok |-> FALSE, config |-> config]
    ELSE IF \E i \in 1..Len(config.Rules) :
                config.Rules[i].Percentage < 0 \/ config.Rules[i].Percentage > 100
    THEN [ok |-> FALSE, config |-> config]
    ELSE [ok |-> TRUE,
          config |-> [config EXCEPT !.Debug = FALSE, !.Rules = sortByPriority(config.Rules)]]

New(config) ==
    IF config.DefaultBackend = EmptyStr THEN [ok |-> FALSE, config |-> config]
    ELSE NewForklift(config)

(***************************************************************************)
(* getOrCreateSessionID                                                    *)
(***************************************************************************)
sessionCookieName == <<102, 111, 114, 107, 108, 105, 102, 116, 95, 105, 100>> \* "forklift_id"

\* getOrCreateSessionID that sets the cookie anew on a request that carries a
\* valid one
getOrCreateSessionIDRefresh(request, rand) ==
    LET cookie == Values(request.Cookies, sessionCookieName)
        id == IF cookie # << >> /\ cookie[1] # EmptyStr /\ isValidSessionID(cookie[1])
              THEN cookie[1]
              ELSE IF rand = << >> THEN EmptyStr ELSE generateSessionID(rand[1])
    IN  IF id = EmptyStr THEN [sessionID |-> EmptyStr, setCookie |-> << >>]
        ELSE [sessionID |-> id,
              setCookie |-> <<[Name |-> sessionCookieName,
                               Value |-> id,
                               Path |-> s_root,
                               MaxAge |-> sessionCookieMaxAge,
                               HttpOnly |-> TRUE,
                               Secure |-> request.TLS,
                               SameSiteStrict |-> TRUE]>>]

\* rand is << >> when rand.Read fails and <<bytes>> when it fills in bytes
getOrCreateSessionID(request, rand) ==
    LET cookie == Values(request.Cookies, sessionCookieName)
    IN  IF cookie # << >> /\ cookie[1] # EmptyStr /\ isValidSessionID(cookie[1])
        THEN [sessionID |-> cookie[1], setCookie |-> << >>]
        ELSE IF rand = << >>
        THEN [sessionID |-> EmptyStr, setCookie |-> << >>]
        ELSE [sessionID |-> generateSessionID(rand[1]),
              setCookie |-> <<[Name |-> sessionCookieName,
                               Value |-> generateSessionID(rand[1]),
                               Path |-> s_root,
                               MaxAge |-> sessionCookieMaxAge,
                               HttpOnly |-> TRUE,
                               Secure |-> request.TLS,
                               SameSiteStrict |-> TRUE]>>]

\* http.NewRequest fails on a URL that url.Parse rejects: of the URLs of this
\* model, those with an ASCII control character
URLParses(url) == \A i \in 1..Len(url) : url[i] >= 32 /\ url[i] # 127

(***************************************************************************)
(* The configurations, requests and random bytes of the model              *)
(***************************************************************************)
NoConds == << >>

FormMID(v) == <<Cond(s_form, s_MID, EmptyStr, s_eq, v)>>

cfgSplit ==
    Config(s_default,
           <<Rule(s_root, EmptyStr, s_GET, NoConds, s_echo1, 50, 1, EmptyStr, s_group1),
             Rule(s_root, EmptyStr, s_GET, NoConds, s_echo2, 50, 1, EmptyStr, s_group2),
             Rule(s_v2, EmptyStr, s_GET, NoConds, s_echo1, 50, 1, EmptyStr, EmptyStr),
             Rule(s_v2, EmptyStr, s_GET, NoConds, s_echo2, 0, 2, EmptyStr, EmptyStr),
             Rule(s_root, EmptyStr, s_POST, FormMID(s_d), s_echo3, 10, 2, EmptyStr, EmptyStr),
             Rule(s_root, EmptyStr, s_POST, FormMID(s_a), s_echo2, 0, 2, EmptyStr, EmptyStr),
             Rule(EmptyStr, s_api, s_GET, NoConds, s_echo2, 0, 1, s_v1, EmptyStr)>>,
           TRUE)

cfgPriority ==
    Config(s_default,
           <<Rule(s_v2, EmptyStr, s_GET, NoConds, s_echo1, 0, 10, EmptyStr, EmptyStr),
             Rule(s_v2, EmptyStr, s_GET, NoConds, s_echo2, 0, 5, EmptyStr, EmptyStr),
             Rule(s_root, EmptyStr, s_GET, NoConds, s_echo1, 80, 1, EmptyStr, EmptyStr),
             Rule(s_root, EmptyStr, s_GET, NoConds, s_echo3, 80, 1, EmptyStr, EmptyStr),
             Rule(s_xapi, EmptyStr, EmptyStr, NoConds, s_badhost, 0, 0, EmptyStr, EmptyStr),
             Rule(EmptyStr, s_api, s_GET, NoConds, EmptyStr, 0, 3, EmptyStr, EmptyStr)>>,
           FALSE)

\* the example configuration: rules A to G
cfgExample ==
    Config(s_default,
           <<Rule(s_v2, EmptyStr, s_GET, NoConds, s_echo2, 0, 2, EmptyStr, EmptyStr),
             Rule(s_root, EmptyStr, s_GET, NoConds, s_echo1, 50, 1, EmptyStr, s_group1),
             Rule(s_root, EmptyStr, s_GET, NoConds, s_echo2, 50, 1, EmptyStr, s_group2),
             Rule(s_v3, EmptyStr, s_GET, NoConds, s_echo3, 0, 2, EmptyStr, EmptyStr),
             Rule(s_root, EmptyStr, s_POST, FormMID(s_a), s_echo2, 0, 2, EmptyStr, EmptyStr),
             Rule(s_querytest, EmptyStr, s_GET, <<Cond(s_query, EmptyStr, s_mid, s_eq, s_two)>>,
                  s_echo2, 0, 0, EmptyStr, EmptyStr),
             Rule(s_root, EmptyStr, s_POST, FormMID(s_d), s_echo3, 10, 2, EmptyStr, EmptyStr)>>,
           FALSE)

\* the configuration of README section 9, "Complex Condition Matching"
cfgPremium ==
    Config(s_default,
           <<Rule(s_premiumcontent, EmptyStr, s_GET,
                  <<Cond(s_header, s_Authorization, EmptyStr, s_regex, s_bearerpattern),
                    Cond(s_query, EmptyStr, s_version, s_eq, s_v2value)>>,
                  s_premium, 0, 1, EmptyStr, EmptyStr)>>,
           FALSE)

\* thirteen rules for GET /v3, the last one of a higher priority
WideRule(i) ==
    Rule(s_v3, EmptyStr, s_GET, NoConds, IF i % 2 = 1 THEN s_echo1 ELSE s_echo2, i,
         IF i = maxInsertion + 1 THEN 2 ELSE 1, EmptyStr, EmptyStr)

cfgWide == Config(s_default, [i \in 1..(maxInsertion + 1) |-> WideRule(i)], FALSE)

\* a configuration NewForklift rejects: debug on, the rules not in priority
\* order, the last percentage out of range
cfgInvalid ==
    Config(s_default,
           <<Rule(s_root, EmptyStr, s_GET, NoConds, s_echo1, 50, 1, EmptyStr, EmptyStr),
             Rule(s_root, EmptyStr, s_GET, NoConds, s_echo2, 101, 2, EmptyStr, EmptyStr)>>,
           TRUE)

GenPercentages == {0 - 1, 0, 100, 101}

GenRule(pct) == Rule(s_root, EmptyStr, s_GET, NoConds, s_echo1, pct, 1, EmptyStr, EmptyStr)

RECURSIVE GenRuleLists(_)
GenRuleLists(n) ==
    IF n = 0 THEN {<< >>}
    ELSE GenRuleLists(n - 1)
         \cup {Append(l, GenRule(p)) : l \in {x \in GenRuleLists(n - 1) : Len(x) = n - 1},
                                      p \in GenPercentages}

Configs ==
    {cfgSplit, cfgPriority, cfgExample, cfgPremium, cfgWide, cfgInvalid}
    \cup {Config(d, l, FALSE) : d \in {EmptyStr, s_default}, l \in GenRuleLists(MaxGenRules)}

Rep(c, n) == [i \in 1..n |-> c]

\* the forklift_id cookies a client without a cookie of ours may send: none, or
\* one of these values
CookieValues ==
    {EmptyStr, s_AAAA, s_AApad, s_AAA, s_AplusAA, s_AApadA,
     Rep(65, maxSessionIDLength), Rep(65, maxSessionIDLength + 4)}

SessionCookie(v) == <<sessionCookieName, v>>

\* the requests of the model, without their session cookie
Requests ==
    {Request(s_root, s_GET, << >>, << >>, << >>, TRUE, << >>),
     Request(s_v2, s_GET, << >>, << >>, << >>, TRUE, << >>),
     Request(s_root, s_POST, << >>, << >>, << >>, TRUE, <<<<s_MID, s_d>>>>),
     Request(s_root, s_POST, << >>, << >>, << >>, TRUE, <<<<s_MID, s_a>>>>),
     Request(s_v2, s_POST, << >>, << >>, << >>, TRUE, <<<<s_MID, s_a>>>>),
     Request(s_apiapix, s_GET, << >>, << >>, << >>, TRUE, << >>),
     Request(s_xapi, s_GET, << >>, << >>, << >>, TRUE, << >>),
     Request(s_v3, s_GET, << >>, << >>, << >>, TRUE, << >>),
     Request(s_unknown, s_GET, << >>, << >>, << >>, TRUE, << >>),
     Request(s_querytest, s_GET, << >>, <<<<s_mid, s_two>>>>, << >>, TRUE, << >>),
     Request(s_premiumcontent, s_GET, <<<<s_Authorization, s_bearerabc>>>>,
             <<<<s_version, s_v2value>>>>, << >>, TRUE, << >>),
     Request(s_premiumcontent, s_GET, <<<<s_Authorization, s_bearerfree>>>>,
             <<<<s_version, s_v2value>>>>, << >>, TRUE, << >>)}

NoRequest == Request(EmptyStr, EmptyStr, << >>, << >>, << >>, TRUE, << >>)

\* the bytes rand.Read may fill in
RandomBytes(k) == [i \in 1..sessionIDByteLength |-> (k * 37 + i * (2 * k + 1)) % 256]

RandOutcomes == {<< >>} \cup {<<RandomBytes(k)>> : k \in 1..NumSeeds}

\* the status codes a backend may answer with
BackendStatus == {200, 404, 500}

NoSelection == [Backend |-> EmptyStr, Rule |-> NoRule]

(***************************************************************************)
(* State                                                                   *)
(***************************************************************************)
VARIABLES
    given,      \* the configuration as the caller wrote it
    cfg,        \* the Config object the caller passed, which the middleware keeps
    handler,    \* New returned a handler
    pc,         \* "new", "failed", "idle", or the step ServeHTTP is at
    req,        \* the request being served
    sid,        \* sessionID of ServeHTTP
    setCookie,  \* the Set-Cookie headers of the response
    sel,        \* selected of ServeHTTP
    url,        \* the URL of the outbound request
    debugHdr,   \* the X-Selected-Backend headers of the response
    status,     \* the status written to the caller, 0 while none is
    prev,       \* the previous exchange of the same client, if any, and how many
                \* cookies the client was issued since it last came without the
                \* cookie it holds
    shareRules, \* the matching rules whose shares are measured
    shareK,     \* the number of hash values sampled
    shareCount, \* how many sampled hash values selected each backend
    writes,     \* how many times a status has been written to the caller
    resp,       \* the status of the backend's reply, once client.Do returned one
    bodyLeft,   \* what is still unread of req.Body
    proxyReq,   \* the outbound request
    cancelled,  \* the caller has cancelled the context of its request
    nextCalls,  \* how many times ServeHTTP of the next handler was called for the request
    conc,       \* two requests served at the same time: each one's step and selection
    cacheGen,   \* how many times cleanupCache has replaced RuleEngine.cache
    ticker,     \* the cleanupCache goroutine has been started
    fnIn,       \* the arguments of the function under evaluation
    fnOut       \* its result

vars == <<given, cfg, handler, pc, req, sid, setCookie, sel, url, debugHdr, status, prev,
          shareRules, shareK, shareCount, writes, resp, bodyLeft, proxyReq, cancelled,
          nextCalls, conc, cacheGen, ticker, fnIn, fnOut>>

concVars == <<conc, cacheGen, ticker>>

evalVars == <<fnIn, fnOut>>

NoConc ==
    /\ conc = << >>
    /\ cacheGen = 0
    /\ ticker = FALSE

NoEval ==
    /\ fnIn = << >>
    /\ fnOut = FALSE

proxyVars == <<writes, resp, bodyLeft, proxyReq, cancelled, nextCalls>>

NoProxyReq == [nil |-> TRUE]

NoProxy ==
    /\ writes = 0
    /\ resp = << >>
    /\ bodyLeft = EmptyStr
    /\ proxyReq = NoProxyReq
    /\ cancelled = FALSE
    /\ nextCalls = 0

serveVars == <<req, sid, setCookie, sel, url, debugHdr, status>>

shareVars == <<shareRules, shareK, shareCount>>

NoShare ==
    /\ shareRules = << >>
    /\ shareK = 0
    /\ shareCount = << >>

Init ==
    /\ given \in Configs
    /\ cfg = given
    /\ handler = FALSE
    /\ pc = "new"
    /\ req = NoRequest
    /\ sid = EmptyStr
    /\ setCookie = << >>
    /\ sel = NoSelection
    /\ url = EmptyStr
    /\ debugHdr = << >>
    /\ status = 0
    /\ prev = << >>
    /\ NoShare
    /\ NoProxy
    /\ NoConc
    /\ NoEval

\* forklift.New(ctx, next, cfg, name)
Construct ==
    /\ pc = "new"
    /\ LET r == New(cfg)
       IN  /\ cfg' = r.config
           /\ handler' = r.ok
           /\ pc' = IF r.ok THEN "idle" ELSE "failed"
           /\ ticker' = r.ok
    /\ UNCHANGED <<given, serveVars, prev, shareVars, conc, cacheGen, evalVars, proxyVars>>

\* the cookie the client of the previous exchange now holds
Jar == IF prev[1].setCookie # << >> THEN <<SessionCookie(prev[1].setCookie[1].Value)>>
       ELSE prev[1].req.Cookies

\* a request arrives: from a client that holds no cookie of ours, or the request
\* of the previous exchange again, with the cookie its client now holds or
\* exactly as it was sent before
Receive ==
    /\ pc = "idle"
    /\ \/ /\ \E r \in Requests, c \in {<< >>} \cup {<<SessionCookie(v)>> : v \in CookieValues} :
                req' = [r EXCEPT !.Cookies = c]
          /\ prev' = << >>
       \/ /\ prev # << >>
          /\ \/ req' = [prev[1].req EXCEPT !.Cookies = Jar]
             \/ req' = prev[1].req
          /\ prev' = prev
    /\ sid' = EmptyStr
    /\ setCookie' = << >>
    /\ sel' = NoSelection
    /\ url' = EmptyStr
    /\ debugHdr' = << >>
    /\ status' = 0
    /\ writes' = 0
    /\ resp' = << >>
    /\ bodyLeft' = RequestBody(req')
    /\ proxyReq' = NoProxyReq
    /\ cancelled' = FALSE
    /\ nextCalls' = 0
    /\ pc' = "session"
    /\ UNCHANGED <<given, cfg, handler, shareVars, concVars, evalVars>>

\* ServeHTTP: handleSessionID
HandleSessionID ==
    /\ pc = "session"
    /\ \E rand \in RandOutcomes :
          LET r == getOrCreateSessionID(req, rand)
          IN  /\ sid' = r.sessionID
              /\ setCookie' = r.setCookie
              /\ status' = IF r.sessionID = EmptyStr THEN 500 ELSE 0
              /\ writes' = IF r.sessionID = EmptyStr THEN writes + 1 ELSE writes
              /\ pc' = IF r.sessionID = EmptyStr THEN "done" ELSE "select"
    /\ UNCHANGED <<given, cfg, handler, req, sel, url, debugHdr, prev, shareVars, concVars, evalVars,
                   resp, bodyLeft, proxyReq, cancelled, nextCalls>>

\* ServeHTTP: selectBackend and the debug header
SelectBackend ==
    /\ pc = "select"
    /\ \E iter \in MapIterations(getMatchingRules(cfg.Rules, req)) :
          sel' = selectBackend(cfg, req, sid, iter)
    /\ debugHdr' = IF cfg.Debug THEN <<sel'.Backend>> ELSE << >>
    /\ bodyLeft' = bodyAfterMatching(cfg.Rules, req, bodyLeft)
    /\ pc' = "proxy"
    /\ UNCHANGED <<given, cfg, handler, req, sid, setCookie, url, status, prev, shareVars, concVars, evalVars,
                   writes, resp, proxyReq, cancelled, nextCalls>>

\* http.NewRequest(method, url, body): the request reads its body from the reader
\* it is given, and its context is context.Background()
NewRequest(method, target, body) ==
    [Method |-> method, URL |-> target, Body |-> body, Ctx |-> "Background"]

\* ServeHTTP: createProxyRequest
CreateProxyRequest ==
    /\ pc = "proxy"
    /\ url' = constructBackendURL(req, sel.Backend, sel.Rule)
    /\ IF URLParses(url')
       THEN /\ pc' = "send"
            /\ status' = 0
            /\ writes' = writes
            /\ proxyReq' = NewRequest(req.Method, url', bodyLeft)
       ELSE /\ pc' = "done"
            /\ status' = 500
            /\ writes' = writes + 1
            /\ proxyReq' = proxyReq
    /\ UNCHANGED <<given, cfg, handler, req, sid, setCookie, sel, debugHdr, prev, shareVars, concVars, evalVars,
                   resp, bodyLeft, cancelled, nextCalls>>

\* sendProxyRequest that answers a failed client.Do with StatusInternalServerError
SendProxyRequestInternalError ==
    /\ pc = "send"
    /\ \/ status' = 500 /\ resp' = << >>
       \/ \E code \in BackendStatus : status' = code /\ resp' = <<code>>
    /\ writes' = writes + 1
    /\ pc' = "done"
    /\ UNCHANGED <<given, cfg, handler, req, sid, setCookie, sel, url, debugHdr, prev,
                   shareVars, concVars, evalVars, bodyLeft, proxyReq, cancelled, nextCalls>>

\* sendProxyRequest with an http.Client that has no Timeout: client.Do may wait
\* for a backend that never answers
SendProxyRequestNoTimeout ==
    /\ pc = "send"
    /\ \/ status' = 502 /\ resp' = << >> /\ writes' = writes + 1 /\ pc' = "done"
       \/ \E code \in BackendStatus :
             status' = code /\ resp' = <<code>> /\ writes' = writes + 1 /\ pc' = "done"
       \/ pc' = "waiting" /\ UNCHANGED <<status, resp, writes>>
    /\ UNCHANGED <<given, cfg, handler, req, sid, setCookie, sel, url, debugHdr, prev,
                   shareVars, concVars, evalVars, bodyLeft, proxyReq, cancelled, nextCalls>>

\* a ServeHTTP that passes a request no rule was selected for on to the next
\* handler, which answers it
SendProxyRequestOrNext ==
    /\ pc = "send"
    /\ IF sel.Rule = NoRule
       THEN /\ nextCalls' = nextCalls + 1
            /\ status' = 200
            /\ resp' = << >>
       ELSE /\ nextCalls' = nextCalls
            /\ \/ status' = 502 /\ resp' = << >>
               \/ \E code \in BackendStatus : status' = code /\ resp' = <<code>>
    /\ writes' = writes + 1
    /\ pc' = "done"
    /\ UNCHANGED <<given, cfg, handler, req, sid, setCookie, sel, url, debugHdr, prev,
                   shareVars, concVars, evalVars, bodyLeft, proxyReq, cancelled>>

\* ServeHTTP: sendProxyRequest; client.Do fails, or the backend answers
SendProxyRequest ==
    /\ pc = "send"
    /\ \/ status' = 502 /\ resp' = << >>
       \/ \E code \in BackendStatus : status' = code /\ resp' = <<code>>
    /\ writes' = writes + 1
    /\ pc' = "done"
    /\ UNCHANGED <<given, cfg, handler, req, sid, setCookie, sel, url, debugHdr, prev,
                   shareVars, concVars, evalVars, bodyLeft, proxyReq, cancelled, nextCalls>>

\* the caller cancels its request while the outbound call is in flight
Cancel ==
    /\ pc = "send"
    /\ ~cancelled
    /\ cancelled' = TRUE
    /\ UNCHANGED <<given, cfg, handler, pc, serveVars, prev, shareVars, concVars, evalVars,
                   writes, resp, bodyLeft, proxyReq, nextCalls>>

\* ServeHTTP returns; the client keeps the exchange
Return ==
    /\ pc = "done"
    /\ prev' = <<[req |-> req, sid |-> sid, setCookie |-> setCookie, sel |-> sel,
                  issued |-> LET n == Len(setCookie)
                                      + (IF prev = << >> \/ req.Cookies # Jar THEN 0
                                         ELSE prev[1].issued)
                             IN  IF n > MaxIssued THEN MaxIssued ELSE n]>>
    /\ pc' = "idle"
    /\ UNCHANGED <<given, cfg, handler, serveVars, shareVars, concVars, evalVars, proxyVars>>

Next ==
    \/ Construct
    \/ Receive
    \/ HandleSessionID
    \/ SelectBackend
    \/ CreateProxyRequest
    \/ SendProxyRequest
    \/ Cancel
    \/ Return

Spec == Init /\ [][Next]_vars

\* ServeHTTP moves on from the step it is at. HandleSessionID, SelectBackend,
\* CreateProxyRequest and SendProxyRequest are the steps of Next that do so, and
\* each of them is enabled whenever pc is at it
HandlerStep ==
    /\ pc \in {"session", "select", "proxy", "send"}
    /\ pc' \in {"select", "proxy", "send", "done"}
    /\ pc' # pc

\* ServeHTTP runs on: each of its steps is taken once it can be, and client.Do
\* comes back, with an answer or with an error, at the latest when the Timeout
\* of the http.Client expires
SpecLive == Init /\ [][Next]_vars /\ WF_pc(HandlerStep)

(***************************************************************************)
(* constructBackendURL on its own: every short path against every short    *)
(* prefix and rewrite                                                      *)
(***************************************************************************)
PathBytes == {47, 97, 98}    \* "/", "a", "b"

RECURSIVE StringsUpTo(_)
StringsUpTo(n) ==
    IF n = 0 THEN {<< >>}
    ELSE StringsUpTo(n - 1)
         \cup {Append(x, c) : x \in {y \in StringsUpTo(n - 1) : Len(y) = n - 1},
                              c \in PathBytes}

URLPaths == {<<47>> \o x : x \in StringsUpTo(MaxPathLen - 1)}

URLPrefixes == {<< >>, <<47>>, <<47, 97>>, <<97>>, <<47, 97, 47>>}

URLRewrites == {<< >>, <<47, 98>>, <<47, 97, 47, 97>>}

URLRules ==
    {NoRule}
    \cup {Rule(EmptyStr, p, EmptyStr, NoConds, s_echo1, 0, 0, w, EmptyStr) :
             p \in URLPrefixes, w \in URLRewrites}

InitURL ==
    /\ given = cfgSplit
    /\ cfg = New(cfgSplit).config
    /\ handler = TRUE
    /\ pc = "proxy"
    /\ \E path \in URLPaths : req = [NoRequest EXCEPT !.Path = path]
    /\ sid = s_AAAA
    /\ setCookie = << >>
    /\ \E r \in URLRules : sel = [Backend |-> s_echo1, Rule |-> r]
    /\ url = EmptyStr
    /\ debugHdr = << >>
    /\ status = 0
    /\ prev = << >>
    /\ NoShare
    /\ NoProxy
    /\ NoConc
    /\ NoEval

NextURL ==
    \/ CreateProxyRequest
    \/ SendProxyRequest

SpecURL == InitURL /\ [][NextURL]_vars

(***************************************************************************)
(* The share of the hash range each backend gets: selectBackend from the   *)
(* sort on, applied to every point of a grid of hash values                *)
(***************************************************************************)
HashGrid == maxPercentage * GridScale

\* the middle of the k-th of HashGrid equal cells of the hash range
GridHash(k) == [n |-> <<2 * k - 1>>, d |-> <<2 * HashGrid>>]

SharePercentages == {0, 10, 50, 90, 100}

ShareRule(b, pct) == Rule(s_root, EmptyStr, s_GET, NoConds, b, pct, 1, EmptyStr, EmptyStr)

ShareRules == {ShareRule(b, p) : b \in {s_echo1, s_echo2}, p \in SharePercentages}

RECURSIVE ShareRuleLists(_)
ShareRuleLists(n) ==
    IF n = 1 THEN {<<r>> : r \in ShareRules}
    ELSE ShareRuleLists(n - 1)
         \cup {Append(l, r) : l \in {x \in ShareRuleLists(n - 1) : Len(x) = n - 1},
                              r \in ShareRules}

InitShare ==
    /\ given = cfgSplit
    /\ cfg = cfgSplit
    /\ handler = FALSE
    /\ pc = "share"
    /\ req = NoRequest
    /\ sid = EmptyStr
    /\ setCookie = << >>
    /\ sel = NoSelection
    /\ url = EmptyStr
    /\ debugHdr = << >>
    /\ status = 0
    /\ prev = << >>
    /\ shareRules \in ShareRuleLists(MaxShareRules)
    /\ shareK = 0
    /\ shareCount = [b \in {s_default, s_echo1, s_echo2} |-> 0]
    /\ NoProxy
    /\ NoConc
    /\ NoEval

\* one more hash value, routed as selectBackend routes it
Sample ==
    /\ pc = "share"
    /\ shareK < HashGrid
    /\ shareK' = shareK + 1
    /\ \E iter \in MapIterations(shareRules) :
          LET b == selectSorted(s_default, sortByPriority(shareRules), GridHash(shareK + 1),
                                iter).Backend
          IN  shareCount' = [shareCount EXCEPT ![b] = @ + 1]
    /\ UNCHANGED <<given, cfg, handler, pc, serveVars, prev, shareRules, proxyVars, concVars, evalVars>>

NextShare == Sample

SpecShare == InitShare /\ [][NextShare]_vars

(***************************************************************************)
(* Two requests of one session served at the same time, while cleanupCache *)
(* runs on its ticker                                                      *)
(***************************************************************************)
ConcSessions == {s_AAAA, s_AApad} \cup {generateSessionID(RandomBytes(k)) : k \in 1..NumSeeds}

InitConc ==
    /\ given \in {cfgSplit, cfgPriority, cfgExample}
    /\ cfg = New(given).config
    /\ handler = TRUE
    /\ pc = "serving"
    /\ \E r \in Requests, s \in ConcSessions :
          /\ req = [r EXCEPT !.Cookies = <<SessionCookie(s)>>]
          /\ sid = s
    /\ setCookie = << >>
    /\ sel = NoSelection
    /\ url = EmptyStr
    /\ debugHdr = << >>
    /\ status = 0
    /\ prev = << >>
    /\ NoShare
    /\ NoProxy
    /\ conc = [i \in 1..2 |-> [pc |-> "select", sel |-> NoSelection]]
    /\ cacheGen = 0
    /\ ticker = TRUE
    /\ NoEval

\* request i runs selectBackend; the selection reads the configuration and the
\* request, and neither reads nor writes RuleEngine.cache
Route(i) ==
    /\ pc = "serving"
    /\ conc[i].pc = "select"
    /\ \E iter \in MapIterations(getMatchingRules(cfg.Rules, req)) :
          conc' = [conc EXCEPT ![i] = [pc |-> "routed",
                                       sel |-> selectBackend(cfg, req, sid, iter)]]
    /\ UNCHANGED <<given, cfg, handler, pc, serveVars, prev, shareVars, proxyVars,
                   cacheGen, ticker, evalVars>>

\* cleanupCache: the ticker fires and RuleEngine.cache becomes a new, empty map
CleanupCache ==
    /\ pc = "serving"
    /\ ticker
    /\ cacheGen < MaxCleanups
    /\ cacheGen' = cacheGen + 1
    /\ UNCHANGED <<given, cfg, handler, pc, serveVars, prev, shareVars, proxyVars,
                   conc, ticker, evalVars>>

NextConc ==
    \/ \E i \in 1..2 : Route(i)
    \/ CleanupCache

SpecConc == InitConc /\ [][NextConc]_vars

(***************************************************************************)
(* compareValues and ruleMatches on their own                              *)
(***************************************************************************)
NumBytes == {45, 48, 53, 97}    \* "-", "0", "5", "a"

RECURSIVE NumStringsUpTo(_)
NumStringsUpTo(n) ==
    IF n = 0 THEN {<< >>}
    ELSE NumStringsUpTo(n - 1)
         \cup {Append(x, c) : x \in {y \in NumStringsUpTo(n - 1) : Len(y) = n - 1},
                              c \in NumBytes}

MatchConditions ==
    {NoConds,
     <<Cond(s_query, EmptyStr, s_mid, s_eq, s_two)>>,
     <<Cond(s_form, s_MID, EmptyStr, s_eq, s_a), Cond(s_form, s_MID, EmptyStr, s_prefix, s_a)>>,
     <<Cond(s_form, s_MID, EmptyStr, s_eq, s_a), Cond(s_query, EmptyStr, s_mid, s_eq, s_two)>>,
     <<Cond(s_mid, s_MID, EmptyStr, s_eq, EmptyStr)>>}

\* requests whose header, query, cookie and form values differ in case and in
\* surrounding white space
CondRequests ==
    {Request(s_root, s_GET, <<<<s_XTier, s_silver>>, <<s_XTier, s_GoldSpaced>>>>,
             <<<<s_tier, s_GoldSpaced>>>>, <<<<s_tier, s_GOLD>>>>, TRUE, << >>),
     Request(s_root, s_GET, <<<<s_XTier, s_GOLD>>>>, <<<<s_tier, s_gold>>>>,
             <<<<s_tier, s_GoldSpaced>>, <<s_tier, s_gold>>>>, TRUE, << >>),
     Request(s_root, s_POST, << >>, <<<<s_tier, s_GOLD>>>>, <<<<s_tier, s_gold>>>>, TRUE,
             <<<<s_tier, s_GoldSpaced>>>>),
     Request(s_root, s_POST, <<<<s_XTier, s_silver>>>>, << >>, << >>, TRUE,
             <<<<s_tier, s_gold>>>>)}

CondPool ==
    {Cond(type, IF type = s_header THEN s_xtier ELSE s_tier, s_tier, op, value) :
        type \in {s_header, s_query, s_cookie, s_form},
        op \in {s_eq, s_prefix, s_contains},
        value \in {s_gold, s_GoldSpaced, s_GOLD, s_silver}}

\* rules that differ in what calculateHash reads, and the fields it does not
\* read set anew in every rule of a list
KeyRules ==
    {Rule(path, EmptyStr, s_GET, NoConds, backend, 0, 1, EmptyStr, token) :
        path \in {s_root, s_v2}, backend \in {s_echo1, s_echo2}, token \in {EmptyStr, s_group1}}

KeyRuleLists == {<<r>> : r \in KeyRules} \cup {<<r, q>> : r, q \in KeyRules}

OtherFields ==
    [Percentage : {0, 50}, PathPrefix : {EmptyStr, s_api}, PathPrefixRewrite : {EmptyStr, s_v1},
     Conditions : {NoConds, FormMID(s_a)}]

WithFields(rules, f) ==
    [i \in 1..Len(rules) |->
        [rules[i] EXCEPT !.Percentage = f.Percentage, !.PathPrefix = f.PathPrefix,
                         !.PathPrefixRewrite = f.PathPrefixRewrite,
                         !.Conditions = f.Conditions]]

MatchRules ==
    {Rule(path, prefix, method, conds, s_echo1, 0, 0, EmptyStr, EmptyStr) :
        path \in {EmptyStr, s_root, s_apiapix},
        prefix \in {EmptyStr, s_api, s_root},
        method \in {EmptyStr, s_GET, s_POST},
        conds \in MatchConditions}

InitEval ==
    /\ given = cfgExample
    /\ cfg = cfgExample
    /\ handler = FALSE
    /\ \/ /\ pc = "compare"
          /\ fnIn \in [actual : NumStringsUpTo(MaxNumLen), operator : {s_gt, s_GT},
                        expected : NumStringsUpTo(MaxNumLen)]
       \/ /\ pc = "match"
          /\ fnIn \in [req : Requests, rule : MatchRules]
       \/ /\ pc = "check"
          /\ fnIn \in [req : CondRequests, condition : CondPool]
       \/ /\ pc = "hash"
          /\ fnIn \in [sessionID : {s_AAAA, generateSessionID(RandomBytes(1))},
                        rules : KeyRuleLists, fields : OtherFields]
       \/ /\ pc = "group"
          /\ fnIn \in [rules : ShareRuleLists(MaxShareRules + 1)]
    /\ fnOut = FALSE
    /\ req = NoRequest
    /\ sid = EmptyStr
    /\ setCookie = << >>
    /\ sel = NoSelection
    /\ url = EmptyStr
    /\ debugHdr = << >>
    /\ status = 0
    /\ prev = << >>
    /\ NoShare
    /\ NoProxy
    /\ NoConc

CompareValues ==
    /\ pc = "compare"
    /\ fnOut' = compareValues(fnIn.actual, fnIn.operator, fnIn.expected)
    /\ pc' = "compared"
    /\ UNCHANGED <<given, cfg, handler, serveVars, prev, shareVars, proxyVars, concVars, fnIn>>

RuleMatches ==
    /\ pc = "match"
    /\ fnOut' = ruleMatches(fnIn.req, fnIn.rule)
    /\ pc' = "matched"
    /\ UNCHANGED <<given, cfg, handler, serveVars, prev, shareVars, proxyVars, concVars, fnIn>>

CheckCondition ==
    /\ pc = "check"
    /\ fnOut' = checkCondition(fnIn.req, fnIn.condition)
    /\ pc' = "checked"
    /\ UNCHANGED <<given, cfg, handler, serveVars, prev, shareVars, proxyVars, concVars, fnIn>>

\* selectBackend: the total percentage of each backend of the matching rules
BackendPercentages ==
    /\ pc = "group"
    /\ fnOut' = backendPercentages(fnIn.rules)
    /\ pc' = "grouped"
    /\ UNCHANGED <<given, cfg, handler, serveVars, prev, shareVars, proxyVars, concVars, fnIn>>

\* calculateHash for the rules as they are and for the same rules with other
\* percentages, prefixes, rewrites and conditions
CalculateHash ==
    /\ pc = "hash"
    /\ fnOut' = <<calculateHash(fnIn.sessionID, fnIn.rules),
                  calculateHash(fnIn.sessionID, WithFields(fnIn.rules, fnIn.fields))>>
    /\ pc' = "hashed"
    /\ UNCHANGED <<given, cfg, handler, serveVars, prev, shareVars, proxyVars, concVars, fnIn>>

NextEval ==
    \/ CalculateHash
    \/ CompareValues
    \/ RuleMatches
    \/ CheckCondition
    \/ BackendPercentages

SpecEval == InitEval /\ [][NextEval]_vars

(***************************************************************************)
(* Properties                                                              *)
(***************************************************************************)
\* ServeHTTP is past selectBackend
Selected == pc \in {"proxy", "send", "done"} /\ sel # NoSelection

\* ServeHTTP is past handleSessionID
SessionHandled == pc \in {"select", "proxy", "send", "done"}

\* the forklift_id cookies of the request
SentCookie == Values(req.Cookies, sessionCookieName)

MatchesSelected(rule) == ruleMatches(req, rule) /\ rule.Backend = sel.Backend

\* C1: the backend selectBackend chose is config.DefaultBackend or the Backend of
\* a rule of the configuration that matches the request; the backend of a rule
\* that does not match is never chosen on that rule's account
C1_SelectedBackendMatches ==
    Selected =>
        \/ sel.Backend = given.DefaultBackend
        \/ \E i \in 1..Len(given.Rules) : MatchesSelected(given.Rules[i])

\* C1 witness: a rule's backend was chosen while the configuration holds a rule
\* that does not match the request and routes elsewhere
C1_Witness ==
    /\ Selected
    /\ sel.Rule # NoRule
    /\ \E i \in 1..Len(given.Rules) :
          /\ ~ruleMatches(req, given.Rules[i])
          /\ given.Rules[i].Backend \notin {sel.Backend, given.DefaultBackend}

RECURSIVE ConfiguredSum(_, _)
ConfiguredSum(rules, b) ==
    IF rules = << >> THEN 0
    ELSE ConfiguredSum(Tail(rules), b)
         + (IF Head(rules).Backend = b THEN Head(rules).Percentage ELSE 0)

ConfiguredTotal(rules, b) ==
    IF \E i \in 1..Len(rules) : rules[i].Backend = b /\ rules[i].Percentage = 0
    THEN 100
    ELSE ConfiguredSum(rules, b)

RECURSIVE SumOfTotals(_, _)
SumOfTotals(rules, S) ==
    IF S = {} THEN 0
    ELSE LET b == CHOOSE x \in S : TRUE
         IN  ConfiguredTotal(rules, b) + SumOfTotals(rules, S \ {b})

ShareSum == SumOfTotals(shareRules, BackendsOf(shareRules))

\* every hash value of the grid has been routed
Measured == pc = "share" /\ shareK = HashGrid

Distance(a, b) == IF a >= b THEN a - b ELSE b - a

\* C3: over the whole grid of hash values the fraction routed to each backend is
\* its total percentage divided by the sum of the totals, to within one cell of
\* the grid, whatever the sum of the totals is
C3_NormalizedShare ==
    Measured =>
        \A b \in BackendsOf(shareRules) :
            Distance(shareCount[b] * ShareSum, ConfiguredTotal(shareRules, b) * HashGrid)
                <= ShareSum

\* C4: when the totals of the backends sum to exactly 100, each backend gets
\* exactly its total percentage of the hash values and defaultBackend gets none
C4_ExactShareAtHundred ==
    (Measured /\ ShareSum = 100) =>
        /\ \A b \in BackendsOf(shareRules) :
              shareCount[b] * 100 = ConfiguredTotal(shareRules, b) * HashGrid
        /\ shareCount[s_default] = 0

\* C4 witness: two backends that split the hash values between them
C4_Witness ==
    /\ Measured
    /\ ShareSum = 100
    /\ shareCount[s_echo1] > 0
    /\ shareCount[s_echo2] > 0

\* C5: a matching rule without a percentage whose priority is strictly greater
\* than that of every other matching rule has its backend selected
C5_TopPriorityHardRoute ==
    Selected =>
        \A i \in 1..Len(given.Rules) :
            (/\ ruleMatches(req, given.Rules[i])
             /\ given.Rules[i].Percentage = 0
             /\ given.Rules[i].Backend # EmptyStr
             /\ \A j \in 1..Len(given.Rules) :
                   (j # i /\ ruleMatches(req, given.Rules[j]))
                       => given.Rules[j].Priority < given.Rules[i].Priority)
                => sel.Backend = given.Rules[i].Backend

\* C6: when the only matching rule has a percentage p with 0 < p < 100, the
\* share p of the hash values goes to its backend and the rest to defaultBackend
C6_RemainderToDefault ==
    (/\ Measured
     /\ Len(shareRules) = 1
     /\ shareRules[1].Percentage > 0
     /\ shareRules[1].Percentage < 100)
        => /\ shareCount[shareRules[1].Backend] * 100 = shareRules[1].Percentage * HashGrid
           /\ shareCount[s_default] = HashGrid - shareCount[shareRules[1].Backend]

\* the previous response minted a session id and this request is the previous
\* one again, carrying that id as its forklift_id cookie
MintedCookieReturned ==
    /\ prev # << >>
    /\ prev[1].setCookie # << >>
    /\ req = [prev[1].req EXCEPT !.Cookies = <<SessionCookie(prev[1].setCookie[1].Value)>>]

WellFormedBase64URL(v) ==
    /\ Len(v) % 4 = 0
    /\ \A i \in 1..Len(v) :
          \/ IsB64Char(v[i])
          \/ v[i] = 61 /\ i >= Len(v) - 1 /\ (i = Len(v) \/ v[Len(v)] = 61)

\* a forklift_id cookie that is no session id
BadSessionCookie(v) ==
    \/ v = EmptyStr
    \/ Len(v) > 128
    \/ ~WellFormedBase64URL(v)

MintedID(id) == \E k \in 1..NumSeeds : id = generateSessionID(RandomBytes(k))

\* C8: a forklift_id cookie that is empty, longer than 128 bytes or not URL-safe
\* base64 is not the session id of the request: a freshly minted id is, and the
\* response sets it as the cookie; when the random source fails there is no id
\* at all and the request ends with status 500
C8_BadCookieReplaced ==
    (SessionHandled /\ SentCookie # << >> /\ BadSessionCookie(SentCookie[1])) =>
        \/ /\ MintedID(sid)
           /\ sid # SentCookie[1]
           /\ setCookie # << >>
           /\ setCookie[1].Name = sessionCookieName
           /\ setCookie[1].Value = sid
        \/ /\ sid = EmptyStr
           /\ setCookie = << >>
           /\ pc = "done"
           /\ status = 500

\* C8 witness: a cookie of well-formed base64 that is too long was replaced and
\* the request routed under the minted id
C8_Witness ==
    /\ Selected
    /\ SentCookie # << >>
    /\ Len(SentCookie[1]) > 128
    /\ WellFormedBase64URL(SentCookie[1])
    /\ setCookie # << >>
    /\ setCookie[1].Value = sid

\* the selected rule rewrites the prefix the request path starts with
RewriteApplies ==
    /\ sel.Rule # NoRule
    /\ sel.Rule.PathPrefixRewrite # EmptyStr
    /\ sel.Rule.PathPrefix # EmptyStr
    /\ HasPrefix(req.Path, sel.Rule.PathPrefix)

\* C9: when the selected rule has a pathPrefixRewrite and the request path starts
\* with its pathPrefix, the forwarded path is the rewrite followed by the request
\* path after that leading prefix, later occurrences of the prefix untouched;
\* otherwise the forwarded path is the request path
C9_PrefixRewrite ==
    (pc \in {"send", "done"} /\ Selected) =>
        IF RewriteApplies
        THEN url = sel.Backend \o sel.Rule.PathPrefixRewrite
                   \o SubSeq(req.Path, Len(sel.Rule.PathPrefix) + 1, Len(req.Path))
        ELSE url = sel.Backend \o req.Path

\* C9 witness: the prefix occurs again later in the path and stays
C9_Witness ==
    /\ pc = "send"
    /\ RewriteApplies
    /\ Contains(SubSeq(req.Path, Len(sel.Rule.PathPrefix) + 1, Len(req.Path)),
                sel.Rule.PathPrefix)
    /\ url # sel.Backend \o req.Path

ValidConfig(config) ==
    /\ config.DefaultBackend # EmptyStr
    /\ \A i \in 1..Len(config.Rules) :
          config.Rules[i].Percentage >= 0 /\ config.Rules[i].Percentage <= 100

\* C10: construction fails, and leaves no handler, exactly when defaultBackend is
\* empty or a rule's percentage is below 0 or above 100
C10_ConstructionValidates ==
    pc # "new" =>
        /\ handler <=> ValidConfig(given)
        /\ pc = "failed" <=> ~handler

\* C10 witness: construction failed on a percentage alone
C10_Witness ==
    /\ pc = "failed"
    /\ ~handler
    /\ given.DefaultBackend # EmptyStr
    /\ \E i \in 1..Len(given.Rules) : given.Rules[i].Percentage < 0

\* C11: under the example configuration GET /v2 selects echo2, GET /v3 echo3,
\* GET /unknown the default backend, GET /query-test?mid=two echo2 and POST /
\* with form MID=a echo2, whatever the session id
C11_ExampleScenarios ==
    (Selected /\ given = cfgExample) =>
        /\ (req.Method = s_GET /\ req.Path = s_v2) => sel.Backend = s_echo2
        /\ (req.Method = s_GET /\ req.Path = s_v3) => sel.Backend = s_echo3
        /\ (req.Method = s_GET /\ req.Path = s_unknown) => sel.Backend = s_default
        /\ (req.Method = s_GET /\ req.Path = s_querytest /\ req.Query = <<<<s_mid, s_two>>>>)
              => sel.Backend = s_echo2
        /\ (req.Method = s_POST /\ req.Path = s_root /\ req.PostForm = <<<<s_MID, s_a>>>>)
              => sel.Backend = s_echo2

\* C11 witness: GET /query-test?mid=two was routed by rule F under a session id
\* the client brought along
C11_Witness ==
    /\ Selected
    /\ given = cfgExample
    /\ req.Path = s_querytest
    /\ setCookie = << >>
    /\ sel.Rule # NoRule
    /\ sel.Backend = s_echo2

\* the outbound request was constructed
Constructed == pc \in {"send", "done"} /\ proxyReq # NoProxyReq

\* C12: a request ends with exactly one status written: 500 when no session id
\* could be generated or the outbound request could not be constructed, 502 when
\* the dispatch failed, and the backend's status otherwise; before the end none
\* is written, and never a second one
C12_ExactlyOneStatus ==
    /\ writes <= 1
    /\ pc \in {"session", "select", "proxy", "send"} => writes = 0
    /\ pc = "done" =>
          /\ writes = 1
          /\ status = IF sid = EmptyStr \/ proxyReq = NoProxyReq THEN 500
                      ELSE IF resp = << >> THEN 502
                      ELSE resp[1]

\* C12 witness: the dispatch failed and 502 was written, once
C12_Witness ==
    /\ pc = "done"
    /\ Constructed
    /\ resp = << >>
    /\ status = 502
    /\ writes = 1

\* C13: the outbound URL is the backend, the forwarded path and, when the request
\* has a query string, "?" and that query string
C13_QueryForwarded ==
    Constructed =>
        proxyReq.URL = sel.Backend \o rewritePath(req.Path, sel.Rule)
                       \o (IF RawQuery(req) = EmptyStr THEN EmptyStr
                           ELSE <<63>> \o RawQuery(req))

\* C14: when matching evaluated a form condition on a request with a body, the
\* outbound request carries the whole body the request arrived with
C14_BodyPreserved ==
    (/\ Constructed
     /\ RequestBody(req) # EmptyStr
     /\ \E i \in 1..Len(cfg.Rules) : ruleCallsParseForm(req, cfg.Rules[i]))
        => proxyReq.Body = RequestBody(req)

\* the context of the outbound request is done
OutboundCancelled == proxyReq # NoProxyReq /\ proxyReq.Ctx = "Request" /\ cancelled

\* C15: once the caller has cancelled while the outbound call is in flight, the
\* outbound request is cancelled too
C15_CancelPropagates == (pc = "send" /\ cancelled) => OutboundCancelled

\* C16: when the configuration given to New has Debug set, a response whose
\* request reached selectBackend carries X-Selected-Backend with the selected
\* backend
C16_DebugHeader == (Selected /\ given.Debug) => debugHdr = <<sel.Backend>>

\* the request value matches the regular expression "^Bearer premium-.*$": it
\* begins with "Bearer premium-" and has no line break after it
MatchesBearerPremium(v) == HasPrefix(v, s_bearerprefix) /\ \A i \in 1..Len(v) : v[i] # 10

\* C18: under the configuration of README section 9 a GET of /premium-content
\* is routed to premium-service exactly when its Authorization header matches
\* the regular expression and its version query parameter is v2
C18_RegexRoutesPremium ==
    (Selected /\ given = cfgPremium /\ req.Path = s_premiumcontent /\ req.Method = s_GET) =>
        (sel.Backend = s_premium <=>
            /\ \E i \in 1..Len(req.Header) :
                  /\ req.Header[i][1] = s_Authorization
                  /\ MatchesBearerPremium(req.Header[i][2])
            /\ Get(req.Query, s_version) = s_v2value)

\* what one request, served alone, selects
SequentialBackend ==
    selectBackend(cfg, req, sid,
                  CHOOSE iter \in MapIterations(getMatchingRules(cfg.Rules, req)) : TRUE).Backend

C19_GtNeedsNumbers ==
    (pc = "compared" /\ ToLower(fnIn.operator) = s_gt) =>
        (fnOut <=> /\ ParseFloat(fnIn.actual).ok
                   /\ ParseFloat(fnIn.expected).ok
                   /\ ParseFloat(fnIn.actual).f > ParseFloat(fnIn.expected).f)

\* C20: ruleMatches is true exactly when the rule's path is empty or is the
\* request path, its pathPrefix is empty or starts the request path, its method
\* is empty or is the request method, and every one of its conditions holds
C20_RuleMatchesIff ==
    pc = "matched" =>
        (fnOut <=>
            /\ fnIn.rule.Path = EmptyStr \/ fnIn.rule.Path = fnIn.req.Path
            /\ fnIn.rule.PathPrefix = EmptyStr \/ HasPrefix(fnIn.req.Path, fnIn.rule.PathPrefix)
            /\ fnIn.rule.Method = EmptyStr \/ fnIn.rule.Method = fnIn.req.Method
            /\ \A i \in 1..Len(fnIn.rule.Conditions) :
                  checkCondition(fnIn.req, fnIn.rule.Conditions[i]))

\* C20 witness: a rule with path, pathPrefix, method and two conditions matched
C20_Witness ==
    /\ pc = "matched"
    /\ fnOut
    /\ fnIn.rule.Path # EmptyStr
    /\ fnIn.rule.PathPrefix # EmptyStr
    /\ fnIn.rule.Method # EmptyStr
    /\ Len(fnIn.rule.Conditions) = 2

\* the values of the request's header of that name, whatever the case of the name
HeaderValuesOf(r, name) ==
    SelectSeq(r.Header, LAMBDA h : ToLower(h[1]) = ToLower(name))

\* the raw value a query, cookie or form condition looks at
RawValueOf(r, c) ==
    IF c.Type = s_query THEN Get(r.Query, c.QueryParam)
    ELSE IF c.Type = s_cookie THEN Get(r.Cookies, c.Parameter)
    ELSE IF r.Method = s_POST THEN Get(r.PostForm, c.Parameter)
    ELSE EmptyStr

\* C21: a header condition is true exactly when some value of the named header,
\* lowercased and trimmed, satisfies the operator against the lowercased and
\* trimmed expected value; a query or form condition, and a cookie condition on
\* a cookie the request carries, is true exactly when the raw value satisfies
\* the operator against the expected value as written
C21_HeaderFoldedOthersExact ==
    pc = "checked" =>
        LET r == fnIn.req
            c == fnIn.condition
        IN  /\ c.Type = s_header =>
                  (fnOut <=> \E i \in 1..Len(HeaderValuesOf(r, c.Parameter)) :
                                compareValues(
                                    TrimSpace(ToLower(HeaderValuesOf(r, c.Parameter)[i][2])),
                                    c.Operator, TrimSpace(ToLower(c.Value))))
            /\ (c.Type \in {s_query, s_form}
                    \/ (c.Type = s_cookie /\ Values(r.Cookies, c.Parameter) # << >>)) =>
                  (fnOut <=> compareValues(RawValueOf(r, c), c.Operator, c.Value))

\* C21 witness: a header condition held through a second header value that
\* differs from the expected value in case and white space
C21_Witness ==
    /\ pc = "checked"
    /\ fnOut
    /\ fnIn.condition.Type = s_header
    /\ fnIn.condition.Operator = s_eq
    /\ Len(HeaderValuesOf(fnIn.req, fnIn.condition.Parameter)) = 2
    /\ \A i \in 1..2 :
          HeaderValuesOf(fnIn.req, fnIn.condition.Parameter)[i][2] # fnIn.condition.Value

\* the rules of one priority, in the order of the list
Tier(rules, p) == SelectSeq(rules, LAMBDA r : r.Priority = p)

NonIncreasing(rules) ==
    \A i \in 1..(Len(rules) - 1) : rules[i].Priority >= rules[i + 1].Priority

\* rules put in the order of list by priority, each tier in the order of defined
TiersKept(list, defined) ==
    /\ NonIncreasing(list)
    /\ \A i \in 1..Len(defined) :
          Tier(list, defined[i].Priority) = Tier(defined, defined[i].Priority)

\* C22: after construction the rules of the configuration are in non-increasing
\* priority with each priority tier in definition order, and so are the matching
\* rules of a request after their sort
C22_StablePriorityOrder ==
    handler =>
        /\ TiersKept(cfg.Rules, given.Rules)
        /\ Selected =>
              TiersKept(sortByPriority(getMatchingRules(cfg.Rules, req)),
                        getMatchingRules(given.Rules, req))

\* the sum of the percentages of the rules of a backend
RECURSIVE PercentageSum(_, _)
PercentageSum(rules, b) ==
    IF rules = << >> THEN 0
    ELSE (IF Head(rules).Backend = b THEN Head(rules).Percentage ELSE 0)
         + PercentageSum(Tail(rules), b)

\* C23: the total of a backend of the matching rules is 100 when one of its
\* rules has percentage 0, wherever that rule stands and whatever the others
\* have, and is the sum of the percentages of its rules otherwise
C23_BackendTotal ==
    pc = "grouped" =>
        /\ DOMAIN fnOut = BackendsOf(fnIn.rules)
        /\ \A b \in BackendsOf(fnIn.rules) :
              fnOut[b] = IF \E i \in 1..Len(fnIn.rules) :
                                fnIn.rules[i].Backend = b /\ fnIn.rules[i].Percentage = 0
                         THEN 100
                         ELSE PercentageSum(fnIn.rules, b)

\* C23 witness: three rules of one backend, the last without a percentage and
\* the first two with percentages that add up to more than 100
C23_Witness ==
    /\ pc = "grouped"
    /\ Len(fnIn.rules) = 3
    /\ Cardinality(BackendsOf(fnIn.rules)) = 1
    /\ fnIn.rules[1].Percentage + fnIn.rules[2].Percentage > 100
    /\ fnIn.rules[1].Percentage > 0
    /\ fnIn.rules[2].Percentage > 0
    /\ fnIn.rules[3].Percentage = 0
    /\ fnOut[fnIn.rules[1].Backend] = 100

\* the key of a rule: its affinityToken alone when set, and otherwise its path,
\* method and backend, one after the other
KeyOf(rule) ==
    IF Len(rule.AffinityToken) > 0 THEN rule.AffinityToken
    ELSE [i \in 1..(Len(rule.Path) + Len(rule.Method) + Len(rule.Backend)) |->
             IF i <= Len(rule.Path) THEN rule.Path[i]
             ELSE IF i <= Len(rule.Path) + Len(rule.Method) THEN rule.Method[i - Len(rule.Path)]
             ELSE rule.Backend[i - Len(rule.Path) - Len(rule.Method)]]

KeysOf(rules) == [i \in 1..Len(rules) |-> KeyOf(rules[i])]

\* C24: for one session id, two lists of matching rules with the same sequence
\* of keys have the same hash value, whatever their percentages, pathPrefixes,
\* pathPrefixRewrites and conditions are
C24_HashOfKeysOnly ==
    pc = "hashed" =>
        (KeysOf(fnIn.rules) = KeysOf(WithFields(fnIn.rules, fnIn.fields))
            => fnOut[1] = fnOut[2])

\* C24 witness: two rules, one with an affinityToken and one without, hashed
\* alike with every field outside the key changed
C24_Witness ==
    /\ pc = "hashed"
    /\ Len(fnIn.rules) = 2
    /\ fnIn.rules[1].AffinityToken # EmptyStr
    /\ fnIn.rules[2].AffinityToken = EmptyStr
    /\ fnIn.fields.Percentage # fnIn.rules[1].Percentage
    /\ fnIn.fields.PathPrefix # fnIn.rules[1].PathPrefix
    /\ fnIn.fields.PathPrefixRewrite # fnIn.rules[1].PathPrefixRewrite
    /\ fnIn.fields.Conditions # fnIn.rules[1].Conditions
    /\ KeysOf(fnIn.rules) = KeysOf(WithFields(fnIn.rules, fnIn.fields))
    /\ fnOut[1] = fnOut[2]

\* the rules of the configuration as defined that match the request and route
\* to backend b
MatchingFor(b) == SelectSeq(given.Rules, LAMBDA r : ruleMatches(req, r) /\ r.Backend = b)

\* the first of them in priority order: of those of the highest priority, the
\* one defined first
FirstRuleFor(b) ==
    LET m == MatchingFor(b)
        top == CHOOSE p \in {m[i].Priority : i \in 1..Len(m)} :
                   \A i \in 1..Len(m) : m[i].Priority <= p
    IN  Tier(m, top)[1]

\* C26: a rule handed over with backend b matches the request, routes to b and
\* is the first rule for b among the matching rules in priority order; no rule
\* is handed over when no rule matches, and then the backend is defaultBackend
C26_FirstRuleHandedOver ==
    Selected =>
        /\ sel.Rule # NoRule =>
              /\ ruleMatches(req, sel.Rule)
              /\ sel.Rule.Backend = sel.Backend
              /\ sel.Rule = FirstRuleFor(sel.Backend)
        /\ sel.Rule = NoRule => sel.Backend = given.DefaultBackend
        /\ (\A i \in 1..Len(given.Rules) : ~ruleMatches(req, given.Rules[i])) => sel.Rule = NoRule

CookieSentBack ==
    /\ prev # << >>
    /\ prev[1].issued > 0
    /\ req.Cookies = Jar

\* C27: a client that was given the forklift_id cookie and sends it back is not
\* given another one: over the requests of such a client the cookie was set
\* once, and every request is routed with the id of the request before
C27_CookieSetOnce ==
    /\ prev # << >> => prev[1].issued <= 1
    /\ (CookieSentBack /\ SessionHandled) =>
          /\ setCookie = << >>
          /\ sid = prev[1].sid
          /\ sid = Jar[1][2]

\* C27 witness: the third request of such a client, or a later one, is done
C27_Witness ==
    /\ CookieSentBack
    /\ pc = "done"
    /\ prev[1].setCookie = << >>
    /\ prev[1].issued = 1
    /\ sel.Rule # NoRule

\* C28: when construction fails the configuration the caller passed is as the
\* caller wrote it, rules and debug flag included, and no cleanupCache
\* goroutine has been started
C28_FailedConstructionLeavesConfig ==
    pc = "failed" =>
        /\ cfg = given
        /\ ~ticker

\* C28 witness: construction failed on a percentage, for a configuration with
\* debug on whose rules are not in priority order
C28_Witness ==
    /\ pc = "failed"
    /\ given.DefaultBackend # EmptyStr
    /\ given.Debug
    /\ ~NonIncreasing(given.Rules)
    /\ cfg.Debug
    /\ cfg.Rules = given.Rules

\* matching evaluates a form condition of the rule: the path, pathPrefix and
\* method of the rule pass and every condition before the form condition holds
FormConditionEvaluated(rule) ==
    /\ rule.Path = EmptyStr \/ rule.Path = req.Path
    /\ rule.PathPrefix = EmptyStr \/ HasPrefix(req.Path, rule.PathPrefix)
    /\ rule.Method = EmptyStr \/ rule.Method = req.Method
    /\ \E k \in 1..Len(rule.Conditions) :
          /\ ToLower(rule.Conditions[k].Type) = s_form
          /\ \A j \in 1..(k - 1) : checkCondition(req, rule.Conditions[j])

\* C29: the outbound request lacks part of the body the request arrived with
\* only if matching evaluated a form condition; for every other request it
\* carries that body whole
C29_BodyReadOnlyByFormCondition ==
    Constructed =>
        \/ proxyReq.Body = RequestBody(req)
        \/ \E i \in 1..Len(cfg.Rules) : FormConditionEvaluated(cfg.Rules[i])

\* C29 witness: a request with a body went out whole under a configuration that
\* has form conditions, none of which was evaluated for it
C29_Witness ==
    /\ Constructed
    /\ RequestBody(req) # EmptyStr
    /\ proxyReq.Body = RequestBody(req)
    /\ \E i \in 1..Len(cfg.Rules) :
          \E k \in 1..Len(cfg.Rules[i].Conditions) :
             ToLower(cfg.Rules[i].Conditions[k].Type) = s_form
    /\ \A i \in 1..Len(cfg.Rules) : ~FormConditionEvaluated(cfg.Rules[i])

\* C30: the next handler is never called; a request that is done was answered
\* by the middleware with 500 or 502, or with the answer of the backend it
\* selected, to which the outbound request went: defaultBackend when no rule
\* matches
C30_NextNeverInvoked ==
    /\ nextCalls = 0
    /\ (pc = "done" /\ req # NoRequest) =>
          \/ status \in {500, 502} /\ resp = << >>
          \/ /\ resp = <<status>>
             /\ proxyReq # NoProxyReq
             /\ HasPrefix(proxyReq.URL, sel.Backend)
             /\ (\A i \in 1..Len(cfg.Rules) : ~ruleMatches(req, cfg.Rules[i]))
                   => sel.Backend = given.DefaultBackend

\* C30 witness: a request that matches no rule was answered by the default
\* backend
C30_Witness ==
    /\ pc = "done"
    /\ \A i \in 1..Len(cfg.Rules) : ~ruleMatches(req, cfg.Rules[i])
    /\ Len(cfg.Rules) > 0
    /\ sel = [Backend |-> given.DefaultBackend, Rule |-> NoRule]
    /\ proxyReq # NoProxyReq
    /\ proxyReq.URL = given.DefaultBackend \o req.Path
    /\ resp = <<200>>
    /\ status = 200
    /\ nextCalls = 0
====
